---- MODULE Spec2Model ----
(***************************************************************************)
(* Model of the Mayastor bdev handle (mayastor/src/core/handle.rs): the    *)
(* BdevHandle composed of an Arc<Descriptor> and an IoChannel, its I/O     *)
(* methods bridging the SPDK completion callback to a oneshot channel,     *)
(* and its open / drop protocol; the gRPC helpers rpc_call, locally and    *)
(* sync_config (mayastor/src/grpc/mod.rs); and NVMe::create                *)
(* (mayastor/src/bdev/dev/nvme.rs).                                        *)
(***************************************************************************)
EXTENDS Integers, Sequences, FiniteSets, TLC

\* ------------------------------------------------------------------------
\* Bounds
\* ------------------------------------------------------------------------
MaxOps == 2        \* I/O method calls made in one behaviour
MaxAddr == 2       \* heap cells available for boxed completion contexts
MaxDescs == 2      \* descriptors opened in one behaviour
MaxHandles == 2    \* handle constructions attempted in one behaviour

OpId == 1 .. MaxOps
Addr == 1 .. MaxAddr
DescId == 1 .. MaxDescs
HandleId == 1 .. MaxHandles

\* ------------------------------------------------------------------------
\* Input domains
\* ------------------------------------------------------------------------
\* (offset, buffer.len()) pairs handed to write_at / read_at
IoArgs == { [offset |-> 0, len |-> 4096], [offset |-> 4096, len |-> 512] }
\* synchronous status codes of the driver's submission calls (0 = accepted,
\* SPDK reports rejections as negated errno values)
Statuses == { 0, -5 }
\* opcodes handed to nvme_admin_custom
Opcodes == { "identify" }
\* nvme_admin_opc::CREATE_SNAPSHOT
CREATE_SNAPSHOT == "create_snapshot"
\* device names
Names == { "nvme0", "missing0" }
\* names registered with the bdev layer
Bdevs == { "nvme0" }

\* workers (cores); Cores::first() is the management worker
Cores == { 0, 1 }
FirstCore == 0

\* A u64 as four 16-bit limbs, least significant first.
Zero64 == << 0, 0, 0, 0 >>
Zero32 == << 0, 0 >>
\* readings of SystemTime::now().duration_since(UNIX_EPOCH).as_secs(): the
\* clock's seconds are a signed 64-bit value, so the top bit is clear
Times == { << 4660, 65535, 0, 0 >>,
           << 7, 22136, 43981, 32766 >> }

\* what the clock shows when create_snapshot reads it: a time before the
\* epoch, or one of Times
Clocks == { [ before |-> TRUE, secs |-> Zero64 ] }
              \cup { [ before |-> FALSE, secs |-> t ] : t \in Times }

\* ------------------------------------------------------------------------
\* State
\* ------------------------------------------------------------------------
VARIABLES
    ops,        \* per I/O method call: arguments, caller position, result
    nOps,       \* number of I/O method calls made so far
    bridge,     \* per call: the oneshot channel (Sender, Receiver, slot)
    heap,       \* heap cell -> bridge whose Sender is boxed there (0 = free)
    box,        \* per call: fate of the Box created by cb_arg
    driver,     \* per call: the driver's view of the submitted operation
    crashed,    \* the process panicked
    desc,       \* descriptors
    hnd,        \* BdevHandle values
    nDesc,      \* descriptors opened so far
    nHnd,       \* handle constructions attempted so far
    lastOpen,   \* inputs, calls made and result of the last open or
                \* open_with_bdev
    cur,        \* Cores::current(): the worker whose event loop is running
    rpc,        \* the rpc_call in progress or last made
    mac,        \* the function using locally! in progress or last run
    sync,       \* the last sync_config call
    nvme        \* the NVMe::create in progress or last made

ioVars == << ops, nOps, bridge, heap, box, driver, crashed >>
lifeVars == << desc, hnd, nDesc, nHnd, lastOpen >>
mgmtVars == << cur, rpc, mac, sync, nvme >>
vars == << ops, nOps, bridge, heap, box, driver, crashed,
           desc, hnd, nDesc, nHnd, lastOpen,
           cur, rpc, mac, sync, nvme >>

\* ------------------------------------------------------------------------
\* Values
\* ------------------------------------------------------------------------
NoRet == [ tag |-> "none", errno |-> 0, offset |-> 0, len |-> 0,
           opcode |-> "-", value |-> 0, secs |-> Zero64 ]

NoCmd == [ opc |-> "-", cdw10 |-> Zero32, cdw11 |-> Zero32 ]

NoOp == [ kind |-> "none", h |-> 0, offset |-> 0, len |-> 0, cmd |-> NoCmd,
          now |-> Zero64, status |-> 0, core |-> 0, submits |-> 0,
          pc |-> "idle",
          awaited |-> FALSE, abandoned |-> FALSE, ret |-> NoRet ]

NoBridge == [ sender |-> "none", receiver |-> "none", slot |-> "empty",
              sends |-> 0 ]

NoDriver == [ state |-> "none", ctx |-> 0, desc |-> 0, chan |-> 0,
              cmd |-> NoCmd, calls |-> 0, success |-> FALSE, freed |-> 0,
              freedFirst |-> FALSE ]

NoDesc == [ state |-> "none", name |-> "-", claimed |-> FALSE,
            strong |-> 0, ext |-> 0, bare |-> FALSE ]

NoHandle == [ state |-> "none", desc |-> 0, holdsDesc |-> FALSE,
              chan |-> FALSE, core |-> 0, log |-> << >>,
              chanAtRelease |-> FALSE ]

NoOpen == [ called |-> FALSE, name |-> "-", rw |-> FALSE, claim |-> FALSE,
            openOk |-> FALSE, claimOk |-> FALSE, chanOk |-> FALSE,
            claimCalls |-> 0, chanCalls |-> 0,
            tag |-> "none", errName |-> "-", handle |-> 0, desc |-> 0,
            via |-> "-" ]

\* ------------------------------------------------------------------------
\* Pure functions
\* ------------------------------------------------------------------------
\* errno values nix knows on Linux; every other i32 becomes UnknownErrno,
\* whose discriminant is 0
KnownErrno == (1 .. 133) \ { 41, 58 }
UnknownErrno == 0

\* nix::errno::Errno::from_i32, the result given as the variant's discriminant
ErrnoFromI32(e) == IF e \in KnownErrno THEN e ELSE UnknownErrno

\* `now as u32`: truncation of a u64 to its low 32 bits
AsU32(x) == << x[1], x[2] >>

\* variant: a shift by 16 instead of 32
Shr16(x) == << x[2], x[3], x[4], 0 >>

\* `now >> 32` on a u64
Shr32(x) == << x[3], x[4], 0, 0 >>

\* the spdk_nvme_cmd built by create_snapshot for clock reading now
SnapshotCmd(now) ==
    [ opc |-> CREATE_SNAPSHOT, cdw10 |-> AsU32(now),
      cdw11 |-> AsU32(Shr32(now)) ]

\* the spdk_nvme_cmd built by nvme_admin_custom
CustomCmd(opcode) == [ opc |-> opcode, cdw10 |-> Zero32, cdw11 |-> Zero32 ]

\* the Err returned when the submission call reports errno # 0
DispatchError(kind, errno, offset, len, cmd) ==
    IF kind = "write"
    THEN [ NoRet EXCEPT !.tag = "WriteDispatch",
                        !.errno = ErrnoFromI32(errno),
                        !.offset = offset, !.len = len ]
    ELSE IF kind = "read"
    THEN [ NoRet EXCEPT !.tag = "ReadDispatch",
                        !.errno = ErrnoFromI32(errno),
                        !.offset = offset, !.len = len ]
    ELSE IF kind = "reset"
    THEN [ NoRet EXCEPT !.tag = "ResetDispatch",
                        !.errno = ErrnoFromI32(errno) ]
    ELSE [ NoRet EXCEPT !.tag = "NvmeAdminDispatch",
                        !.errno = ErrnoFromI32(errno),
                        !.opcode = cmd.opc ]

\* the Ok value of an I/O method whose completion flag was true
OkResult(kind, len, now) ==
    IF kind \in { "write", "read" }
    THEN [ NoRet EXCEPT !.tag = "Ok", !.value = len ]
    ELSE IF kind \in { "reset", "admin" }
    THEN [ NoRet EXCEPT !.tag = "Ok", !.value = 0 ]
    ELSE \* create_snapshot: `self.nvme_admin(&cmd).await?; Ok(now as u64)`
         [ NoRet EXCEPT !.tag = "Ok", !.secs = now ]

\* the Err of an I/O method whose completion flag was false
FailedResult(kind, offset, len, cmd) ==
    IF kind = "write"
    THEN [ NoRet EXCEPT !.tag = "WriteFailed",
                        !.offset = offset, !.len = len ]
    ELSE IF kind = "read"
    THEN [ NoRet EXCEPT !.tag = "ReadFailed",
                        !.offset = offset, !.len = len ]
    ELSE IF kind = "reset"
    THEN [ NoRet EXCEPT !.tag = "ResetFailed" ]
    ELSE \* nvme_admin, also when called by create_snapshot
         [ NoRet EXCEPT !.tag = "NvmeAdminFailed", !.opcode = cmd.opc ]

\* variant: the flag read the wrong way round
AwaitResultInverted(kind, flag, offset, len, cmd, now) ==
    IF flag
    THEN FailedResult(kind, offset, len, cmd)
    ELSE OkResult(kind, len, now)

\* the value an I/O method returns once `r.await` yielded flag
AwaitResult(kind, flag, offset, len, cmd, now) ==
    IF flag
    THEN OkResult(kind, len, now)
    ELSE FailedResult(kind, offset, len, cmd)

\* ------------------------------------------------------------------------
\* Completion bridge
\* ------------------------------------------------------------------------
\* cb_arg(s): Box::into_raw(Box::new(s)); free cells are interchangeable, so
\* the allocator is taken to hand out the lowest one
FreeCells == { a \in Addr : heap[a] = 0 }
CbArg(a) == a \in FreeCells /\ \A b \in FreeCells : a <= b

\* variant: a callback that ignores its argument and takes the Sender of the
\* oldest pending operation
SenderOfOldestPending(arg) ==
    LET boxed == { o \in 1 .. MaxOps : bridge[o].sender = "boxed"
                                        /\ driver[o].state = "pending" }
    IN IF boxed = {} THEN heap[arg]
       ELSE CHOOSE o \in boxed : \A p \in boxed : o <= p

\* Box::from_raw(arg): the Sender the callback recovers from its argument
SenderAt(arg) == heap[arg]

FlagSlot(success) == IF success THEN "true" ELSE "false"

\* variant: a callback that sends only when the operation succeeded and
\* drops the Sender otherwise
SendOnlyOnSuccess(br, success) ==
    IF success
    THEN [ br EXCEPT !.sender = "sent", !.sends = @ + 1,
                     !.slot = IF br.receiver = "alive" THEN "true" ELSE @ ]
    ELSE [ br EXCEPT !.sender = "dropped" ]

\* sender.send(success) on the oneshot channel br: the Sender is consumed;
\* the flag reaches the slot unless the Receiver is gone
Send(br, success) ==
    [ br EXCEPT !.sender = "sent", !.sends = @ + 1,
                !.slot = IF br.receiver = "alive" THEN FlagSlot(success)
                         ELSE @ ]

\* send(..) returned Err: the Receiver had been dropped
SendFailed(br) == br.receiver # "alive"

\* handles through which I/O can be submitted
OpenHandles == { h \in HandleId : hnd[h].state = "open" }

\* variant: a method that submits again after a dispatch error
SubmitAttemptsRetry(status) == IF status # 0 THEN 2 ELSE 1

\* calls of the driver's submission function made by one I/O method call
SubmitAttempts(status) == 1

\* The synchronous part of an I/O method, up to the await: create the oneshot
\* channel, box the Sender, call the driver's submission function, and return
\* the dispatch error when it reports a non-zero status.
\* The method hands self.channel to the driver on whatever worker calls it:
\* the calling worker is recorded, never compared with the channel's worker.
Submit(kind, h, offset, len, cmd, now, status, a) ==
    LET o == nOps + 1 IN
    /\ ~crashed
    /\ nOps < MaxOps
    /\ h \in OpenHandles
    /\ CbArg(a)
    /\ nOps' = o
    /\ heap' = [ heap EXCEPT ![a] = o ]
    /\ box' = [ box EXCEPT ![o] = "boxed" ]
    /\ ops' = [ ops EXCEPT ![o] =
                  [ NoOp EXCEPT !.kind = kind, !.h = h, !.offset = offset,
                                !.len = len, !.cmd = cmd, !.now = now,
                                !.status = status, !.core = cur,
                                !.submits = SubmitAttempts(status),
                                !.pc = IF status # 0 THEN "returned"
                                       ELSE "awaiting",
                                !.awaited = (status = 0),
                                !.ret = IF status # 0
                                        THEN DispatchError(kind, status,
                                                           offset, len, cmd)
                                        ELSE NoRet ] ]
    /\ bridge' = [ bridge EXCEPT ![o] =
                     [ NoBridge EXCEPT !.sender = "boxed",
                                       !.receiver = IF status # 0
                                                    THEN "dropped"
                                                    ELSE "alive" ] ]
    /\ driver' = IF status = 0
                 THEN [ driver EXCEPT ![o] =
                          [ NoDriver EXCEPT !.state = "pending", !.ctx = a,
                                            !.desc = hnd[h].desc, !.chan = h,
                                            !.cmd = cmd ] ]
                 ELSE driver
    /\ UNCHANGED << crashed >>
    /\ UNCHANGED << lifeVars, mgmtVars >>

WriteAt ==
    \E h \in HandleId, io \in IoArgs, status \in Statuses, a \in Addr :
        Submit("write", h, io.offset, io.len, NoCmd, Zero64, status, a)

ReadAt ==
    \E h \in HandleId, io \in IoArgs, status \in Statuses, a \in Addr :
        Submit("read", h, io.offset, io.len, NoCmd, Zero64, status, a)

Reset ==
    \E h \in HandleId, status \in Statuses, a \in Addr :
        Submit("reset", h, 0, 0, NoCmd, Zero64, status, a)

NvmeAdminCustom ==
    \E h \in HandleId, opcode \in Opcodes, status \in Statuses, a \in Addr :
        Submit("admin", h, 0, 0, CustomCmd(opcode), Zero64, status, a)

\* duration_since(UNIX_EPOCH).unwrap() panics when the clock is before the
\* epoch
ClockPanics(clock) == clock.before

\* create_snapshot: the clock is read first; when the unwrap panics the call
\* ends there, with nothing boxed and nothing submitted
CreateSnapshot ==
    \E h \in HandleId, clock \in Clocks, status \in Statuses, a \in Addr :
        IF ClockPanics(clock)
        THEN /\ ~crashed
             /\ nOps < MaxOps
             /\ h \in OpenHandles
             /\ nOps' = nOps + 1
             /\ crashed' = TRUE
             /\ UNCHANGED << ops, bridge, heap, box, driver >>
             /\ UNCHANGED << lifeVars, mgmtVars >>
        ELSE Submit("snapshot", h, 0, 0, SnapshotCmd(clock.secs),
                    clock.secs, status, a)

\* x comes before y in the sequence order
Precedes(x, y, order) ==
    \E i, j \in 1 .. Len(order) : i < j /\ order[i] = x /\ order[j] = y

\* variant: the bdev_io freed after the send
CbOrderSendFirst == << "from_raw", "send", "free_io" >>

\* the order of the statements of io_completion_cb
CbOrder == << "from_raw", "free_io", "send" >>

\* spdk_bdev_free_io calls made by one run of the callback: a statement that
\* follows a panicking send is not executed
FreeIoCalls(br) ==
    IF Precedes("free_io", "send", CbOrder) \/ ~SendFailed(br) THEN 1 ELSE 0

\* io_completion_cb(io, success, arg), invoked by the driver for a pending
\* operation: reclaim the Box, free the bdev_io, send the flag; the expect
\* panics when send returns Err because the Receiver is gone.
IoCompletionCb(io, success) ==
    LET arg == driver[io].ctx
        b == SenderAt(arg)
    IN
    /\ ~crashed
    /\ driver[io].state = "pending"
    /\ heap' = [ heap EXCEPT ![arg] = 0 ]
    /\ box' = [ box EXCEPT ![b] = "reclaimed_cb" ]
    /\ driver' = [ driver EXCEPT ![io].state = "done",
                                 ![io].ctx = 0,
                                 ![io].calls = @ + 1,
                                 ![io].success = success,
                                 ![io].freed = @ + FreeIoCalls(bridge[b]),
                                 ![io].freedFirst =
                                     Precedes("free_io", "send", CbOrder) ]
    /\ bridge' = [ bridge EXCEPT ![b] = Send(bridge[b], success) ]
    /\ crashed' = SendFailed(bridge[b])
    /\ UNCHANGED << ops, nOps >>
    /\ UNCHANGED << lifeVars, mgmtVars >>

Complete == \E io \in OpId, success \in BOOLEAN : IoCompletionCb(io, success)

\* what `r.await` yields: Ok(flag) once the flag is in the slot,
\* Err(Canceled) when the Sender was dropped without sending
AwaitOutcome(br) == IF br.slot # "empty" THEN "ok" ELSE "canceled"

\* `r.await` can complete
AwaitReady(br) == br.slot # "empty" \/ br.sender = "dropped"

\* variant: a canceled await handed to the caller as an error
ExpectReturnsError(outcome) == FALSE

\* .expect("Failed awaiting ... IO") panics on Err(Canceled)
ExpectPanics(outcome) == outcome = "canceled"

\* `r.await` completes: the I/O method maps the flag to its result, or panics
Resume(o) ==
    LET outcome == AwaitOutcome(bridge[o]) IN
    /\ ~crashed
    /\ ops[o].pc = "awaiting"
    /\ AwaitReady(bridge[o])
    /\ IF ExpectPanics(outcome)
       THEN /\ ops' = [ ops EXCEPT ![o].pc = "panicked" ]
            /\ crashed' = TRUE
       ELSE /\ ops' = [ ops EXCEPT
                          ![o].pc = "returned",
                          ![o].ret =
                              IF outcome = "ok"
                              THEN AwaitResult(ops[o].kind,
                                               bridge[o].slot = "true",
                                               ops[o].offset, ops[o].len,
                                               ops[o].cmd, ops[o].now)
                              ELSE [ NoRet EXCEPT !.tag = "Canceled" ] ]
            /\ UNCHANGED crashed
    /\ bridge' = [ bridge EXCEPT ![o].receiver = "taken" ]
    /\ UNCHANGED << nOps, heap, box, driver >>
    /\ UNCHANGED << lifeVars, mgmtVars >>

Await == \E o \in OpId : Resume(o)

\* the future of an I/O method is dropped while it awaits, before the driver
\* has invoked the callback: its Receiver goes
Abandon ==
    \E o \in OpId :
        /\ ~crashed
        /\ ops[o].pc = "awaiting"
        /\ bridge[o].slot = "empty"
        /\ ops' = [ ops EXCEPT ![o].pc = "abandoned", ![o].abandoned = TRUE ]
        /\ bridge' = [ bridge EXCEPT ![o].receiver = "dropped" ]
        /\ UNCHANGED << nOps, heap, box, driver, crashed >>
        /\ UNCHANGED << lifeVars, mgmtVars >>

\* the boxed Sender of a pending operation is dropped without a send: the
\* driver will never invoke the callback for it
SenderDropped ==
    \E o \in OpId :
        /\ ~crashed
        /\ driver[o].state = "pending"
        /\ bridge[o].sender = "boxed"
        /\ bridge' = [ bridge EXCEPT ![o].sender = "dropped" ]
        /\ heap' = [ heap EXCEPT ![driver[o].ctx] = 0 ]
        /\ box' = [ box EXCEPT ![o] = "dropped_unsent" ]
        /\ driver' = [ driver EXCEPT ![o].state = "lost", ![o].ctx = 0 ]
        /\ UNCHANGED << ops, nOps, crashed >>
        /\ UNCHANGED << lifeVars, mgmtVars >>

\* ------------------------------------------------------------------------
\* Handle construction and destruction
\* ------------------------------------------------------------------------
\* Dropping one Arc<Descriptor>: the strong count goes down and the
\* Descriptor is closed when it reaches zero
ReleaseArc(ds, d) ==
    [ ds EXCEPT ![d].strong = @ - 1,
                ![d].state = IF ds[d].strong = 1 THEN "closed" ELSE @ ]

\* BdevHandle::try_from(Arc<Descriptor>) for a descriptor of device name:
\* Ok when desc.get_channel() is Some, GetIoChannel otherwise
TryFromArc(name, chanOk) ==
    IF chanOk
    THEN [ tag |-> "Ok", errName |-> "-" ]
    ELSE [ tag |-> "GetIoChannel", errName |-> name ]

\* the descriptors once descriptor d has been opened on device name, its
\* only reference held by the function that opened it
Opened(d, name, claimed) ==
    [ desc EXCEPT ![d] = [ NoDesc EXCEPT !.name = name, !.claimed = claimed,
                                         !.state = "open", !.strong = 1 ] ]

\* variant: the descriptor of a failed attempt kept open
DropOpenedLeaks(ds, d) == ds

\* open, open_with_bdev or try_from returns an error: the descriptor it
\* owns goes out of scope
DropOpened(ds, d) == ReleaseArc(ds, d)

\* variant: open claims the descriptor whatever the claim flag says
OpenAlwaysClaims(name, claim, openOk, claimOk, chanOk) ==
    IF openOk
    THEN IF ~claimOk
         THEN [ tag |-> "BdevNotFound", errName |-> name,
                claimCalls |-> 1, chanCalls |-> 0 ]
         ELSE [ tag |-> TryFromArc(name, chanOk).tag,
                errName |-> TryFromArc(name, chanOk).errName,
                claimCalls |-> 1, chanCalls |-> 1 ]
    ELSE [ tag |-> "BdevNotFound", errName |-> name,
           claimCalls |-> 0, chanCalls |-> 0 ]

\* BdevHandle::open: what it returns and which calls it makes, given the
\* outcomes of Bdev::open_by_name, Descriptor::claim and get_channel
OpenOutcome(name, claim, openOk, claimOk, chanOk) ==
    IF openOk
    THEN IF claim /\ ~claimOk
         THEN [ tag |-> "BdevNotFound", errName |-> name,
                claimCalls |-> 1, chanCalls |-> 0 ]
         ELSE [ tag |-> TryFromArc(name, chanOk).tag,
                errName |-> TryFromArc(name, chanOk).errName,
                claimCalls |-> IF claim THEN 1 ELSE 0, chanCalls |-> 1 ]
    ELSE [ tag |-> "BdevNotFound", errName |-> name,
           claimCalls |-> 0, chanCalls |-> 0 ]

Open ==
    \E name \in Names, rw \in BOOLEAN, claim \in BOOLEAN,
       openOk \in BOOLEAN, claimOk \in BOOLEAN, chanOk \in BOOLEAN :
        LET out == OpenOutcome(name, claim, openOk, claimOk, chanOk)
            d == nDesc + 1
            h == nHnd + 1
        IN
        /\ ~crashed
        /\ nHnd < MaxHandles
        /\ openOk => (name \in Bdevs /\ nDesc < MaxDescs)
        \* a call that is not made has no outcome
        /\ claimOk => (openOk /\ claim)
        /\ chanOk => (openOk /\ (claim => claimOk))
        /\ nDesc' = IF openOk THEN d ELSE nDesc
        /\ desc' = IF ~openOk THEN desc
                   ELSE IF out.tag = "Ok"
                   THEN Opened(d, name, claim /\ claimOk)
                   ELSE DropOpened(Opened(d, name, claim /\ claimOk), d)
        /\ nHnd' = IF out.tag = "Ok" THEN h ELSE nHnd
        /\ hnd' = IF out.tag = "Ok"
                  THEN [ hnd EXCEPT ![h] =
                           [ state |-> "open", desc |-> d,
                             holdsDesc |-> TRUE, chan |-> TRUE,
                             core |-> cur, log |-> << >>,
                             chanAtRelease |-> FALSE ] ]
                  ELSE hnd
        /\ lastOpen' = [ called |-> TRUE, name |-> name, rw |-> rw,
                         claim |-> claim, openOk |-> openOk,
                         claimOk |-> claimOk, chanOk |-> chanOk,
                         claimCalls |-> out.claimCalls,
                         chanCalls |-> out.chanCalls,
                         tag |-> out.tag, errName |-> out.errName,
                         handle |-> IF out.tag = "Ok" THEN h ELSE 0,
                         desc |-> IF openOk THEN d ELSE 0,
                         via |-> "open" ]
        /\ UNCHANGED << ioVars, mgmtVars >>

\* BdevHandle::open_with_bdev: the error of bdev.open is passed on by `?`,
\* otherwise the result of try_from
OpenWithBdevOutcome(name, openOk, chanOk) ==
    IF openOk
    THEN [ tag |-> TryFromArc(name, chanOk).tag,
           errName |-> TryFromArc(name, chanOk).errName,
           claimCalls |-> 0, chanCalls |-> 1 ]
    ELSE [ tag |-> "OpenBdev", errName |-> name,
           claimCalls |-> 0, chanCalls |-> 0 ]

OpenWithBdev ==
    \E name \in Bdevs, rw \in BOOLEAN, openOk \in BOOLEAN,
       chanOk \in BOOLEAN :
        LET out == OpenWithBdevOutcome(name, openOk, chanOk)
            d == nDesc + 1
            h == nHnd + 1
        IN
        /\ ~crashed
        /\ nHnd < MaxHandles
        /\ openOk => nDesc < MaxDescs
        \* a call that is not made has no outcome
        /\ chanOk => openOk
        /\ nDesc' = IF openOk THEN d ELSE nDesc
        /\ desc' = IF ~openOk THEN desc
                   ELSE IF out.tag = "Ok"
                   THEN Opened(d, name, FALSE)
                   ELSE DropOpened(Opened(d, name, FALSE), d)
        /\ nHnd' = IF out.tag = "Ok" THEN h ELSE nHnd
        /\ hnd' = IF out.tag = "Ok"
                  THEN [ hnd EXCEPT ![h] =
                           [ state |-> "open", desc |-> d,
                             holdsDesc |-> TRUE, chan |-> TRUE,
                             core |-> cur, log |-> << >>,
                             chanAtRelease |-> FALSE ] ]
                  ELSE hnd
        /\ lastOpen' = [ called |-> TRUE, name |-> name, rw |-> rw,
                         claim |-> FALSE, openOk |-> openOk,
                         claimOk |-> FALSE, chanOk |-> chanOk,
                         claimCalls |-> out.claimCalls,
                         chanCalls |-> out.chanCalls,
                         tag |-> out.tag, errName |-> out.errName,
                         handle |-> IF out.tag = "Ok" THEN h ELSE 0,
                         desc |-> IF openOk THEN d ELSE 0,
                         via |-> "open_with_bdev" ]
        /\ UNCHANGED << ioVars, mgmtVars >>

\* a caller opens a descriptor and keeps it in an Arc of its own, to build
\* handles from clones of it
ShareDescriptor ==
    \E name \in Bdevs :
        /\ ~crashed
        /\ nDesc < MaxDescs
        /\ nDesc' = nDesc + 1
        /\ desc' = [ desc EXCEPT ![nDesc + 1] =
                       [ NoDesc EXCEPT !.state = "open", !.name = name,
                                       !.strong = 1, !.ext = 1 ] ]
        /\ UNCHANGED << hnd, nHnd, lastOpen >>
        /\ UNCHANGED << ioVars, mgmtVars >>

\* a caller opens a descriptor and keeps it as a Descriptor of its own
OpenDescriptor ==
    \E name \in Bdevs :
        /\ ~crashed
        /\ nDesc < MaxDescs
        /\ nDesc' = nDesc + 1
        /\ desc' = [ desc EXCEPT ![nDesc + 1] =
                       [ NoDesc EXCEPT !.state = "open", !.name = name,
                                       !.strong = 1, !.ext = 1,
                                       !.bare = TRUE ] ]
        /\ UNCHANGED << hnd, nHnd, lastOpen >>
        /\ UNCHANGED << ioVars, mgmtVars >>

\* BdevHandle::try_from(Descriptor) for a descriptor of device name: Ok when
\* desc.get_channel() is Some, GetIoChannel otherwise
TryFromDescriptor(name, chanOk) ==
    IF chanOk
    THEN [ tag |-> "Ok", errName |-> "-" ]
    ELSE [ tag |-> "GetIoChannel", errName |-> name ]

\* BdevHandle::try_from(desc) by a caller that gives up its Descriptor: the
\* handle takes it into an Arc of its own, or it is dropped with the error
HandleFromDescriptor ==
    \E d \in DescId, chanOk \in BOOLEAN :
        LET h == nHnd + 1
            moved == [ desc EXCEPT ![d].ext = 0, ![d].bare = FALSE ]
        IN
        /\ ~crashed
        /\ desc[d].ext = 1
        /\ desc[d].bare
        /\ nHnd < MaxHandles
        /\ IF TryFromDescriptor(desc[d].name, chanOk).tag = "Ok"
           THEN /\ desc' = moved
                /\ nHnd' = h
                /\ hnd' = [ hnd EXCEPT ![h] =
                              [ state |-> "open", desc |-> d,
                                holdsDesc |-> TRUE, chan |-> TRUE,
                                core |-> cur, log |-> << >>,
                                chanAtRelease |-> FALSE ] ]
           ELSE /\ desc' = DropOpened(moved, d)
                /\ UNCHANGED << hnd, nHnd >>
        /\ UNCHANGED << nDesc, lastOpen >>
        /\ UNCHANGED << ioVars, mgmtVars >>

\* BdevHandle::try_from(arc.clone()) by a caller holding an Arc<Descriptor>
HandleFromArc ==
    \E d \in DescId, chanOk \in BOOLEAN :
        LET h == nHnd + 1
            cloned == [ desc EXCEPT ![d].strong = @ + 1 ]
        IN
        /\ ~crashed
        /\ desc[d].ext = 1
        /\ ~desc[d].bare
        /\ nHnd < MaxHandles
        /\ IF TryFromArc(desc[d].name, chanOk).tag = "Ok"
           THEN /\ desc' = cloned
                /\ nHnd' = h
                /\ hnd' = [ hnd EXCEPT ![h] =
                              [ state |-> "open", desc |-> d,
                                holdsDesc |-> TRUE, chan |-> TRUE,
                                core |-> cur, log |-> << >>,
                                chanAtRelease |-> FALSE ] ]
           ELSE /\ desc' = ReleaseArc(cloned, d)
                /\ UNCHANGED << hnd, nHnd >>
        /\ UNCHANGED << nDesc, lastOpen >>
        /\ UNCHANGED << ioVars, mgmtVars >>

\* the caller drops its own Arc<Descriptor> or Descriptor
DropArc ==
    \E d \in DescId :
        /\ ~crashed
        /\ desc[d].ext = 1
        /\ desc' = [ ReleaseArc(desc, d) EXCEPT ![d].ext = 0,
                                                ![d].bare = FALSE ]
        /\ UNCHANGED << hnd, nDesc, nHnd, lastOpen >>
        /\ UNCHANGED << ioVars, mgmtVars >>

\* variant: the fields dropped in declaration order
DropOrderReversed == << "desc", "channel" >>

\* the order in which Drop for BdevHandle drops the two ManuallyDrop fields
DropOrder == << "channel", "desc" >>

\* variant: the ManuallyDrop channel is never dropped
DropFieldLeaksChannel(st, h, field) ==
    IF field = "channel"
    THEN [ st EXCEPT !.hnd[h].log = Append(@, "channel") ]
    ELSE [ st EXCEPT !.hnd[h].holdsDesc = FALSE,
                     !.hnd[h].chanAtRelease = st.hnd[h].chan,
                     !.hnd[h].log = Append(@, "desc"),
                     !.desc = ReleaseArc(st.desc, st.hnd[h].desc) ]

\* ManuallyDrop::drop of one field of handle h, in the state st of handles
\* and descriptors the drop has reached
DropField(st, h, field) ==
    IF field = "channel"
    THEN [ st EXCEPT !.hnd[h].chan = FALSE,
                     !.hnd[h].log = Append(@, "channel") ]
    ELSE [ st EXCEPT !.hnd[h].holdsDesc = FALSE,
                     !.hnd[h].chanAtRelease = st.hnd[h].chan,
                     !.hnd[h].log = Append(@, "desc"),
                     !.desc = ReleaseArc(st.desc, st.hnd[h].desc) ]

\* no future of an I/O method borrows handle h
Unborrowed(h) ==
    \A o \in OpId : ops[o].h = h => ops[o].pc \in { "returned", "abandoned" }

\* close(self) / drop of a handle: Drop::drop drops the two fields one after
\* the other, in one call
Drop ==
    \E h \in HandleId :
        LET st0 == [ hnd |-> hnd, desc |-> desc ]
            st1 == DropField(st0, h, DropOrder[1])
            st2 == DropField(st1, h, DropOrder[2])
        IN
        /\ ~crashed
        /\ hnd[h].state = "open"
        /\ Unborrowed(h)
        /\ hnd' = [ st2.hnd EXCEPT ![h].state = "dropped" ]
        /\ desc' = st2.desc
        /\ UNCHANGED << nDesc, nHnd, lastOpen >>
        /\ UNCHANGED << ioVars, mgmtVars >>

\* ------------------------------------------------------------------------
\* Workers
\* ------------------------------------------------------------------------
\* another worker's event loop gets to run; a worker blocked in rpc_call
\* keeps the turn until the call is over
SwitchWorker ==
    /\ ~crashed
    /\ rpc.state # "blocked"
    /\ \E w \in Cores \ { cur } : cur' = w
    /\ UNCHANGED << rpc, mac, sync, nvme >>
    /\ UNCHANGED << ioVars, lifeVars >>

\* ------------------------------------------------------------------------
\* rpc_call: run a future to completion on the management worker
\* ------------------------------------------------------------------------
NoReply == [ tag |-> "none", message |-> [ from |-> 0 ], cause |-> "-" ]

NoRpc == [ state |-> "idle", core |-> 0, op |-> 0, result |-> NoReply ]

\* variant: rpc_call without its assertion
RpcAssertMissing(core) == TRUE

\* assert_eq!(Cores::current(), Cores::first())
RpcAssert(core) == core = FirstCore

\* A::from(r): the reply message built from the future's value
ReplyFrom(ret) == [ from |-> ret.value ]

\* .map(|r| Response::new(A::from(r))).map_err(|e| e.into())
RpcResult(ret) ==
    IF ret.tag = "Ok"
    THEN [ NoReply EXCEPT !.tag = "Response", !.message = ReplyFrom(ret) ]
    ELSE [ NoReply EXCEPT !.tag = "Status", !.cause = ret.tag ]

\* rpc_call is entered on the current worker: the assertion, then block_on
\* takes the future, which is going to make the call numbered nOps + 1
RpcEnter ==
    /\ ~crashed
    /\ rpc.state \in { "idle", "returned" }
    /\ nOps < MaxOps
    /\ IF RpcAssert(cur)
       THEN /\ rpc' = [ NoRpc EXCEPT !.state = "blocked", !.core = cur,
                                     !.op = nOps + 1 ]
            /\ UNCHANGED crashed
       ELSE /\ rpc' = [ NoRpc EXCEPT !.state = "asserted", !.core = cur,
                                     !.op = nOps + 1 ]
            /\ crashed' = TRUE
    /\ UNCHANGED << ops, nOps, bridge, heap, box, driver >>
    /\ UNCHANGED << cur, mac, sync, nvme >>
    /\ UNCHANGED lifeVars

\* block_on polls the future for the first time: it runs up to its await,
\* submitting one device operation
RpcFutureStart ==
    /\ rpc.state = "blocked"
    /\ cur = rpc.core
    /\ nOps = rpc.op - 1
    /\ (WriteAt \/ Reset)

\* variant: a wait that parks the worker instead of running its event loop
RpcWaitParked == "park"

\* how rpc_call waits for the future
RpcWait == "block_on"

\* Reactor::block_on polls the reactor for as long as the future is pending
ReactorPolled == RpcWait = "block_on"

\* the future is pending: block_on polls the reactor once, and the driver
\* delivers the completion on this worker
RpcPollOnce ==
    /\ rpc.state = "blocked"
    /\ cur = rpc.core
    /\ ReactorPolled
    /\ Complete

\* block_on polls the future again: its await completes
RpcFuturePoll ==
    /\ rpc.state = "blocked"
    /\ cur = rpc.core
    /\ nOps = rpc.op
    /\ Resume(rpc.op)

\* the future is ready: block_on returns its output and rpc_call maps it
RpcReturn ==
    /\ ~crashed
    /\ rpc.state = "blocked"
    /\ cur = rpc.core
    /\ nOps = rpc.op
    /\ ops[rpc.op].pc = "returned"
    /\ rpc' = [ rpc EXCEPT !.state = "returned",
                           !.result = RpcResult(ops[rpc.op].ret) ]
    /\ UNCHANGED << cur, mac, sync, nvme >>
    /\ UNCHANGED << ioVars, lifeVars >>

\* ------------------------------------------------------------------------
\* locally!: run a future on the current worker and unwrap its result
\* ------------------------------------------------------------------------
\* results of the spawned work: Ok(value), or Err(e) where chain lists e
\* followed by its sources
WorkResults ==
    { [ ok |-> TRUE, value |-> 7, chain |-> << >> ],
      [ ok |-> FALSE, value |-> 0, chain |-> << "create" >> ],
      [ ok |-> FALSE, value |-> 0, chain |-> << "create", "open", "EIO" >> ] }

NoWork == [ ok |-> TRUE, value |-> 0, chain |-> << >> ]

\* statements of the enclosing function that follow the locally! invocation
RestSteps == 2

NoMac == [ state |-> "idle", core |-> 0, taskCore |-> 0, work |-> NoWork,
           value |-> 0, after |-> 0, tag |-> "none", from |-> "-",
           log |-> << >> ]

\* print_error_chain: the error, then ": " and each source in turn
RECURSIVE PrintErrorChain(_)
PrintErrorChain(chain) ==
    IF Len(chain) = 1
    THEN << chain[1] >>
    ELSE PrintErrorChain(SubSeq(chain, 1, Len(chain) - 1))
             \o << ": ", chain[Len(chain)] >>

\* Reactors::current().spawn_local(body): the worker the task is put on
SpawnLocal(core) == core

\* variant: the Err arm logs and goes on
LocallyMatchGoesOn(m, w) ==
    IF w.ok
    THEN [ m EXCEPT !.state = "done", !.work = w, !.value = w.value,
                    !.after = RestSteps, !.tag = "Ok" ]
    ELSE [ m EXCEPT !.state = "done", !.work = w, !.value = 0,
                    !.after = RestSteps, !.tag = "Ok",
                    !.log = PrintErrorChain(w.chain) ]

\* the match of locally! on the work's result w, followed, when the macro
\* evaluates to a value, by the rest of the enclosing function
LocallyMatch(m, w) ==
    IF w.ok
    THEN [ m EXCEPT !.state = "done", !.work = w, !.value = w.value,
                    !.after = RestSteps, !.tag = "Ok" ]
    ELSE [ m EXCEPT !.state = "done", !.work = w,
                    !.tag = "Err", !.from = w.chain[1],
                    !.log = PrintErrorChain(w.chain) ]

\* a function reaches its locally! invocation: the work is spawned
LocallySpawn ==
    /\ ~crashed
    /\ mac.state \in { "idle", "done" }
    /\ mac' = [ NoMac EXCEPT !.state = "spawned", !.core = cur,
                             !.taskCore = SpawnLocal(cur) ]
    /\ UNCHANGED << cur, rpc, sync, nvme >>
    /\ UNCHANGED << ioVars, lifeVars >>

\* the spawned task has finished: `hdl.await` yields its result
LocallyAwait ==
    /\ ~crashed
    /\ mac.state = "spawned"
    /\ cur = mac.core
    /\ \E w \in WorkResults : mac' = LocallyMatch(mac, w)
    /\ UNCHANGED << cur, rpc, sync, nvme >>
    /\ UNCHANGED << ioVars, lifeVars >>

\* ------------------------------------------------------------------------
\* sync_config: export the configuration after a successful call
\* ------------------------------------------------------------------------
\* results of the wrapped future
SyncResults ==
    { [ ok |-> TRUE, value |-> 1, status |-> "-" ],
      [ ok |-> TRUE, value |-> 2, status |-> "-" ],
      [ ok |-> FALSE, value |-> 0, status |-> "not_found" ],
      [ ok |-> FALSE, value |-> 0, status |-> "internal" ] }

NoSyncResult == [ ok |-> TRUE, value |-> 0, status |-> "-" ]

NoSync == [ called |-> FALSE, inner |-> NoSyncResult, exportOk |-> TRUE,
            exports |-> 0, out |-> NoSyncResult ]

\* variant: the export attempted whatever the result
SyncOutcomeAlwaysExports(r, exportOk) ==
    [ called |-> TRUE, inner |-> r, exportOk |-> exportOk,
      exports |-> 1,
      out |-> IF ~exportOk
              THEN [ ok |-> FALSE, value |-> 0, status |-> "data_loss" ]
              ELSE r ]

\* the body of sync_config, given the future's result and whether
\* Config::export_config would succeed
SyncOutcome(r, exportOk) ==
    [ called |-> TRUE, inner |-> r, exportOk |-> exportOk,
      exports |-> IF r.ok THEN 1 ELSE 0,
      out |-> IF r.ok /\ ~exportOk
              THEN [ ok |-> FALSE, value |-> 0, status |-> "data_loss" ]
              ELSE r ]

SyncConfig ==
    /\ ~crashed
    /\ \E r \in SyncResults, exportOk \in BOOLEAN :
           sync' = SyncOutcome(r, exportOk)
    /\ UNCHANGED << cur, rpc, mac, nvme >>
    /\ UNCHANGED << ioVars, lifeVars >>

\* ------------------------------------------------------------------------
\* NVMe::create
\* ------------------------------------------------------------------------
MAX_NAMESPACES == 1

NoNvme == [ state |-> "idle", name |-> "-", exists |-> FALSE,
            driverCalls |-> 0, status |-> 0, count |-> 0,
            context |-> "none", sender |-> "none", receiver |-> "none",
            sent |-> 0, cbCalls |-> 0, cbContext |-> "none",
            cbReceiver |-> "none", staleWrite |-> FALSE,
            awaited |-> FALSE,
            tag |-> "none", names |-> << >>, ret |-> << >> ]

\* errno_result_from_i32((), errno) is Ok(())
ErrnoResultOk(errno) == errno = 0

\* what the driver stores in names[0] for the controller's namespace
NamespaceBdev(name) == << name, "n1" >>

\* variant: the driver called before the name is looked up
NvmeBeginDriverFirst(name, status) ==
    IF ~ErrnoResultOk(status)
    THEN [ NoNvme EXCEPT !.state = "done", !.name = name,
                         !.exists = name \in Bdevs, !.status = status,
                         !.driverCalls = 1, !.count = MAX_NAMESPACES,
                         !.sender = "boxed", !.tag = "InvalidParams" ]
    ELSE IF name \in Bdevs
    THEN [ NoNvme EXCEPT !.state = "done", !.name = name,
                         !.exists = TRUE, !.status = status,
                         !.driverCalls = 1, !.count = MAX_NAMESPACES,
                         !.sender = "boxed", !.tag = "BdevExists" ]
    ELSE [ NoNvme EXCEPT !.state = "awaiting", !.name = name,
                         !.status = status,
                         !.driverCalls = 1, !.count = MAX_NAMESPACES,
                         !.context = "live", !.sender = "boxed",
                         !.receiver = "held" ]

\* create up to its await: the lookup, the context, the channel, the
\* driver's create call and the check of its status
NvmeBegin(name, status) ==
    IF name \in Bdevs
    THEN [ NoNvme EXCEPT !.state = "done", !.name = name,
                         !.exists = TRUE, !.status = status,
                         !.tag = "BdevExists" ]
    ELSE IF ~ErrnoResultOk(status)
    THEN [ NoNvme EXCEPT !.state = "done", !.name = name,
                         !.status = status,
                         !.driverCalls = 1, !.count = MAX_NAMESPACES,
                         !.sender = "boxed", !.tag = "InvalidParams" ]
    ELSE [ NoNvme EXCEPT !.state = "awaiting", !.name = name,
                         !.status = status,
                         !.driverCalls = 1, !.count = MAX_NAMESPACES,
                         !.context = "live", !.sender = "boxed",
                         !.receiver = "held" ]

NvmeCreate ==
    /\ ~crashed
    /\ nvme.state \in { "idle", "done" }
    /\ \E name \in Names, status \in Statuses :
           nvme' = NvmeBegin(name, status)
    /\ UNCHANGED << cur, rpc, mac, sync >>
    /\ UNCHANGED << ioVars, lifeVars >>

\* the future of create is dropped while it awaits, before the driver has
\* invoked the callback: the context and the Receiver it owns are destroyed,
\* the driver keeps the addresses it was given
NvmeAbandon ==
    /\ ~crashed
    /\ nvme.state = "awaiting"
    /\ nvme.sender = "boxed"
    /\ nvme' = [ nvme EXCEPT !.state = "abandoned", !.context = "dropped",
                             !.receiver = "dropped" ]
    /\ UNCHANGED << cur, rpc, mac, sync >>
    /\ UNCHANGED << ioVars, lifeVars >>

\* nvme_create_cb(arg, _bdev_count, errno), invoked by the driver, which has
\* filled names[0] when it reports success.  When the context is gone that
\* store goes through a dangling address: it may hit freed memory unnoticed
\* or corrupt memory in use.  The send to a dropped Receiver fails and
\* .expect("done callback receiver side disappeared") panics.
NvmeCreateCb ==
    /\ ~crashed
    /\ nvme.state \in { "awaiting", "abandoned" }
    /\ nvme.sender = "boxed"
    /\ \E errno \in Statuses, corrupts \in BOOLEAN :
           /\ corrupts => (errno = 0 /\ nvme.context = "dropped")
           /\ nvme' = [ nvme EXCEPT
                          !.sender = IF nvme.receiver = "held"
                                     THEN "sent" ELSE "failed",
                          !.sent = errno,
                          !.cbCalls = @ + 1,
                          !.cbContext = nvme.context,
                          !.cbReceiver = nvme.receiver,
                          !.staleWrite = corrupts,
                          !.names = IF errno = 0 /\ nvme.context = "live"
                                    THEN NamespaceBdev(nvme.name)
                                    ELSE << >> ]
           /\ crashed' = (nvme.receiver # "held" \/ corrupts)
    /\ UNCHANGED << cur, rpc, mac, sync >>
    /\ UNCHANGED << ops, nOps, bridge, heap, box, driver >>
    /\ UNCHANGED lifeVars

\* the boxed Sender is dropped without a send
NvmeSenderDropped ==
    /\ ~crashed
    /\ nvme.state = "awaiting"
    /\ nvme.sender = "boxed"
    /\ nvme' = [ nvme EXCEPT !.sender = "dropped" ]
    /\ UNCHANGED << cur, rpc, mac, sync >>
    /\ UNCHANGED << ioVars, lifeVars >>

\* receiver.await.context(CancelBdev)?.context(CreateBdev)?
NvmeAwaitTag(n) ==
    IF n.sender = "dropped"
    THEN "CancelBdev"
    ELSE IF ~ErrnoResultOk(n.sent)
    THEN "CreateBdev"
    ELSE "Ok"

\* `receiver.await` completes and create returns
NvmeCreateResume ==
    /\ ~crashed
    /\ nvme.state = "awaiting"
    /\ nvme.sender \in { "sent", "dropped" }
    /\ nvme' = [ nvme EXCEPT
                   !.state = "done", !.awaited = TRUE,
                   !.receiver = "taken", !.context = "dropped",
                   !.tag = NvmeAwaitTag(nvme),
                   !.ret = IF NvmeAwaitTag(nvme) = "Ok"
                           THEN nvme.names
                           ELSE << >> ]
    /\ UNCHANGED << cur, rpc, mac, sync >>
    /\ UNCHANGED << ioVars, lifeVars >>

\* ------------------------------------------------------------------------
\* State of the gRPC helpers and of NVMe::create before any call
\* ------------------------------------------------------------------------
InitMgmt ==
    /\ cur = FirstCore
    /\ rpc = NoRpc
    /\ mac = NoMac
    /\ sync = NoSync
    /\ nvme = NoNvme

\* ------------------------------------------------------------------------
\* Specification of the I/O methods: one handle is open
\* ------------------------------------------------------------------------
InitIo ==
    /\ ops = [ o \in OpId |-> NoOp ]
    /\ nOps = 0
    /\ bridge = [ o \in OpId |-> NoBridge ]
    /\ heap = [ a \in Addr |-> 0 ]
    /\ box = [ o \in OpId |-> "none" ]
    /\ driver = [ o \in OpId |-> NoDriver ]
    /\ crashed = FALSE

OpenedOne ==
    /\ desc = [ d \in DescId |->
                  IF d = 1
                  THEN [ NoDesc EXCEPT !.state = "open", !.name = "nvme0",
                                       !.strong = 1 ]
                  ELSE NoDesc ]
    /\ hnd = [ h \in HandleId |->
                 IF h = 1
                 THEN [ NoHandle EXCEPT !.state = "open", !.desc = 1,
                                        !.holdsDesc = TRUE, !.chan = TRUE,
                                        !.core = FirstCore ]
                 ELSE NoHandle ]
    /\ nDesc = 1
    /\ nHnd = 1
    /\ lastOpen = NoOpen

Init == InitIo /\ OpenedOne /\ InitMgmt

Next ==
    \/ WriteAt
    \/ ReadAt
    \/ Reset
    \/ NvmeAdminCustom
    \/ CreateSnapshot
    \/ Complete
    \/ Await
    \/ Abandon

Spec == Init /\ [][Next]_vars

\* ------------------------------------------------------------------------
\* Specification of the handle life cycle: nothing is open, no I/O is made
\* ------------------------------------------------------------------------
NothingOpen ==
    /\ desc = [ d \in DescId |-> NoDesc ]
    /\ hnd = [ h \in HandleId |-> NoHandle ]
    /\ nDesc = 0
    /\ nHnd = 0
    /\ lastOpen = NoOpen

InitLife == InitIo /\ NothingOpen /\ InitMgmt

NextLife ==
    \/ Open
    \/ OpenWithBdev
    \/ ShareDescriptor
    \/ HandleFromArc
    \/ OpenDescriptor
    \/ HandleFromDescriptor
    \/ DropArc
    \/ Drop

SpecLife == InitLife /\ [][NextLife]_vars

\* ------------------------------------------------------------------------
\* Specification of a lost completion: the I/O methods, and a Sender that
\* is dropped before it is used
\* ------------------------------------------------------------------------
NextCancel ==
    \/ WriteAt
    \/ ReadAt
    \/ Reset
    \/ NvmeAdminCustom
    \/ Complete
    \/ Await
    \/ SenderDropped

SpecCancel == Init /\ [][NextCancel]_vars

\* ------------------------------------------------------------------------
\* Specification of the I/O methods under a fair event loop: a task whose
\* await can complete is eventually polled
\* ------------------------------------------------------------------------
SpecFair == Init /\ [][Next]_vars /\ \A o \in OpId : WF_vars(Resume(o))

\* ------------------------------------------------------------------------
\* Specification of rpc_call: gRPC methods run futures that submit I/O
\* ------------------------------------------------------------------------
NextRpc ==
    \/ SwitchWorker
    \/ RpcEnter
    \/ RpcFutureStart
    \/ RpcPollOnce
    \/ RpcFuturePoll
    \/ RpcReturn

SpecRpc == Init /\ [][NextRpc]_vars

\* block_on is a loop: it keeps polling the future and the reactor, and the
\* driver completes what was submitted to it
SpecRpcFair ==
    /\ Init
    /\ [][NextRpc]_vars
    /\ WF_vars(RpcFutureStart)
    /\ WF_vars(RpcPollOnce)
    /\ WF_vars(RpcFuturePoll)
    /\ WF_vars(RpcReturn)

\* ------------------------------------------------------------------------
\* Specification of worker affinity: handles are made and used on any worker
\* ------------------------------------------------------------------------
NextAffinity ==
    \/ SwitchWorker
    \/ ShareDescriptor
    \/ HandleFromArc
    \/ Reset
    \/ Complete

SpecAffinity == Init /\ [][NextAffinity]_vars

\* ------------------------------------------------------------------------
\* Specification of the management helpers: locally!, sync_config and
\* NVMe::create, called on any worker
\* ------------------------------------------------------------------------
NextMgmt ==
    \/ SwitchWorker
    \/ LocallySpawn
    \/ LocallyAwait
    \/ SyncConfig
    \/ NvmeCreate
    \/ NvmeAbandon
    \/ NvmeCreateCb
    \/ NvmeSenderDropped
    \/ NvmeCreateResume

SpecMgmt == Init /\ [][NextMgmt]_vars

\* ------------------------------------------------------------------------
\* Properties
\* ------------------------------------------------------------------------
\* calls made so far, and those whose submission the driver accepted
Called == { o \in OpId : ops[o].kind # "none" }
Accepted == { o \in Called : ops[o].status = 0 }
Rejected == { o \in Called : ops[o].status # 0 }

\* C1: for every call whose submission returned 0 the completion callback
\* resolves that call's bridge exactly once: the callback runs at most once,
\* no bridge is ever sent on twice, and once the driver has invoked the
\* callback for a call, the send on that call's bridge has happened and, the
\* caller still waiting, carries the flag the driver reported.
C1_ResolvedExactlyOnce ==
    \A o \in Accepted :
        /\ driver[o].calls <= 1
        /\ bridge[o].sends <= 1
        /\ driver[o].calls = 1 =>
              /\ bridge[o].sends = 1
              /\ bridge[o].sender = "sent"
              /\ ~ops[o].abandoned =>
                    bridge[o].slot = FlagSlot(driver[o].success)

C1_Witness ==
    \E o \in Accepted :
        /\ driver[o].calls = 1
        /\ ~driver[o].success
        /\ bridge[o].sends = 1
        /\ bridge[o].slot = "false"

\* C2: whenever the submission call returns a non-zero status, the method
\* returns the Dispatch error of its kind carrying exactly that status and
\* the caller's offset and length (the opcode for nvme_admin), without having
\* awaited the bridge, and the callback is never invoked for that attempt.
C2_DispatchCarriesStatus ==
    \A o \in Rejected :
        /\ ops[o].pc = "returned"
        /\ ~ops[o].awaited
        /\ driver[o].calls = 0
        /\ ops[o].ret.errno = ops[o].status
        /\ ops[o].kind = "write" =>
              /\ ops[o].ret.tag = "WriteDispatch"
              /\ ops[o].ret.offset = ops[o].offset
              /\ ops[o].ret.len = ops[o].len
        /\ ops[o].kind = "read" =>
              /\ ops[o].ret.tag = "ReadDispatch"
              /\ ops[o].ret.offset = ops[o].offset
              /\ ops[o].ret.len = ops[o].len
        /\ ops[o].kind = "reset" => ops[o].ret.tag = "ResetDispatch"
        /\ ops[o].kind \in { "admin", "snapshot" } =>
              /\ ops[o].ret.tag = "NvmeAdminDispatch"
              /\ ops[o].ret.opcode = ops[o].cmd.opc

\* C3: every boxed completion context that was allocated has been reclaimed,
\* by its callback or by the caller on dispatch failure, except those of
\* operations still in flight.
C3_ContextsReclaimed ==
    \A o \in Called :
        \/ box[o] \in { "reclaimed_cb", "reclaimed_caller" }
        \/ /\ box[o] = "boxed"
           /\ driver[o].state = "pending"

\* C4: for a call whose submission succeeded, the result is determined by the
\* flag delivered to the callback: true gives Ok(buffer.len()) for write_at
\* and read_at, Ok(0) for reset and nvme_admin and Ok(now) for
\* create_snapshot; false gives WriteFailed / ReadFailed with the caller's
\* offset and length, ResetFailed, or NvmeAdminFailed with the command's
\* opcode.
C4_ResultFollowsFlag ==
    \A o \in Accepted :
        ops[o].pc = "returned" =>
            LET r == ops[o].ret
                k == ops[o].kind
            IN
            /\ driver[o].calls = 1
            /\ driver[o].success =>
                  /\ r.tag = "Ok"
                  /\ k \in { "write", "read" } => r.value = ops[o].len
                  /\ k \in { "reset", "admin" } => r.value = 0
            /\ ~driver[o].success =>
                  /\ k = "write" => /\ r.tag = "WriteFailed"
                                    /\ r.offset = ops[o].offset
                                    /\ r.len = ops[o].len
                  /\ k = "read" => /\ r.tag = "ReadFailed"
                                   /\ r.offset = ops[o].offset
                                   /\ r.len = ops[o].len
                  /\ k = "reset" => r.tag = "ResetFailed"
                  /\ k \in { "admin", "snapshot" } =>
                        /\ r.tag = "NvmeAdminFailed"
                        /\ r.opcode = ops[o].cmd.opc

C4_Witness ==
    \E o, p \in Accepted :
        /\ ops[o].pc = "returned"
        /\ ops[o].kind = "write"
        /\ ops[o].ret.tag = "Ok"
        /\ ops[o].ret.value = 4096
        /\ ops[p].pc = "returned"
        /\ ops[p].kind = "read"
        /\ ops[p].ret.tag = "ReadFailed"
        /\ ops[p].ret.len = 512

\* handles that were constructed
Built == { h \in HandleId : hnd[h].state # "none" }

\* C5: on every destruction of a handle the channel is released strictly
\* before the descriptor reference: no handle has given up its descriptor
\* reference while its channel is still allocated, and a dropped handle
\* released first its channel and then its descriptor reference, the channel
\* being gone when the reference was released.
C5_ChannelBeforeDescriptor ==
    \A h \in Built :
        /\ hnd[h].chan => hnd[h].holdsDesc
        /\ hnd[h].state = "dropped" =>
               /\ ~hnd[h].chan
               /\ ~hnd[h].holdsDesc
               /\ hnd[h].log = << "channel", "desc" >>
               /\ ~hnd[h].chanAtRelease

\* a handle was dropped and its descriptor, which it alone held, is closed
C5_Witness ==
    \E h \in Built :
        /\ hnd[h].state = "dropped"
        /\ hnd[h].log = << "channel", "desc" >>
        /\ desc[hnd[h].desc].state = "closed"

\* handles holding a reference to descriptor d
Holders(d) == { h \in Built : hnd[h].desc = d /\ hnd[h].holdsDesc }

\* C6: a descriptor shared by several handles stays open as long as at least
\* one handle holds a reference and is closed only when the last reference is
\* released; no live channel belongs to a closed descriptor, and every handle
\* that has not been closed keeps its channel and an open descriptor.
C6_SharedDescriptorOutlivesChannels ==
    /\ \A d \in DescId :
          /\ Holders(d) # {} => desc[d].state = "open"
          /\ desc[d].state = "closed" => desc[d].strong = 0
          /\ desc[d].state = "open" =>
                desc[d].strong = Cardinality(Holders(d)) + desc[d].ext
    /\ \A h \in Built :
          /\ hnd[h].chan => desc[hnd[h].desc].state = "open"
          /\ hnd[h].state = "open" =>
                /\ hnd[h].chan
                /\ hnd[h].holdsDesc
                /\ desc[hnd[h].desc].state = "open"

C6_Witness ==
    \E g, h \in Built :
        /\ g # h
        /\ hnd[g].desc = hnd[h].desc
        /\ hnd[g].state = "dropped"
        /\ hnd[h].state = "open"
        /\ hnd[h].chan
        /\ desc[hnd[h].desc].state = "open"
        /\ desc[hnd[h].desc].ext = 0
        /\ desc[hnd[h].desc].strong = 1

\* operations the driver has accepted and not yet completed
InFlight == { o \in OpId : driver[o].state = "pending" }

\* C7: operations concurrently in flight each have their own completion
\* context (the cell at an in-flight operation's context holds that
\* operation's Sender and no other in-flight operation uses it), and whatever
\* the order of completions each caller receives the flag and the byte count
\* of its own operation.
C7_OwnContextOwnResult ==
    /\ \A o \in InFlight :
          /\ driver[o].ctx \in Addr
          /\ heap[driver[o].ctx] = o
          /\ \A p \in InFlight : p # o => driver[p].ctx # driver[o].ctx
    /\ \A o \in Accepted :
          /\ bridge[o].slot # "empty" =>
                /\ driver[o].calls = 1
                /\ bridge[o].slot = FlagSlot(driver[o].success)
          /\ ops[o].pc = "returned" =>
                /\ (ops[o].ret.tag = "Ok") = driver[o].success
                /\ (ops[o].ret.tag = "Ok" /\ ops[o].kind \in { "write", "read" })
                      => ops[o].ret.value = ops[o].len

C7_Witness ==
    \E o, p \in Accepted :
        /\ o < p
        /\ ops[o].kind = "read"
        /\ ops[p].kind = "read"
        /\ ops[o].h = ops[p].h
        /\ ops[o].len # ops[p].len
        /\ o \in InFlight
        /\ ops[p].pc = "returned"
        /\ ops[p].ret.tag = "Ok"
        /\ ops[p].ret.value = ops[p].len

\* a u32 as two 16-bit limbs
IsU32(x) == /\ Len(x) = 2
            /\ \A i \in 1 .. 2 : x[i] \in 0 .. 65535

\* lo + hi * 2^32 for u32 values lo and hi, as a u64
Join32(lo, hi) == lo \o hi

\* C8: create_snapshot called when the clock reads T issues an admin command
\* whose cdw10 is T mod 2^32 and whose cdw11 is T div 2^32, and on success
\* returns T, so that cdw10 + cdw11 * 2^32 is the returned value.
C8_SnapshotTimeSplit ==
    \A o \in Called :
        ops[o].kind = "snapshot" =>
            LET T == ops[o].now
                c == ops[o].cmd
            IN
            /\ c.opc = CREATE_SNAPSHOT
            /\ IsU32(c.cdw10)
            /\ IsU32(c.cdw11)
            /\ c.cdw10 = << T[1], T[2] >>
            /\ c.cdw11 = << T[3], T[4] >>
            /\ o \in Accepted => driver[o].cmd = c
            /\ (ops[o].pc = "returned" /\ ops[o].ret.tag = "Ok") =>
                  /\ ops[o].ret.secs = T
                  /\ Join32(c.cdw10, c.cdw11) = ops[o].ret.secs

C8_Witness ==
    \E o \in Accepted :
        /\ ops[o].kind = "snapshot"
        /\ ops[o].now[3] # 0
        /\ ops[o].now[4] # 0
        /\ ops[o].pc = "returned"
        /\ ops[o].ret.tag = "Ok"
        /\ ops[o].ret.secs = ops[o].now

\* C9: open returns BdevNotFound naming `name` exactly when the device
\* cannot be opened or claim is set and the claim is refused; GetIoChannel
\* exactly when the descriptor opened (and was claimed if requested) but no
\* channel could be allocated; otherwise a handle holding that descriptor and
\* one new channel.  No claim is attempted when claim is false and no channel
\* is allocated when open or claim failed.
C9_OpenClassification ==
    (lastOpen.called /\ lastOpen.via = "open") =>
        LET refused == lastOpen.claim /\ ~lastOpen.claimOk IN
        /\ lastOpen.tag \in { "BdevNotFound", "GetIoChannel", "Ok" }
        /\ (lastOpen.tag = "BdevNotFound") = (~lastOpen.openOk \/ refused)
        /\ lastOpen.tag = "BdevNotFound" => lastOpen.errName = lastOpen.name
        /\ (lastOpen.tag = "GetIoChannel") =
              (lastOpen.openOk /\ ~refused /\ ~lastOpen.chanOk)
        /\ lastOpen.tag = "Ok" =>
              /\ lastOpen.handle \in Built
              /\ hnd[lastOpen.handle].desc = lastOpen.desc
              /\ lastOpen.desc # 0
              /\ lastOpen.chanCalls = 1
        /\ ~lastOpen.claim => lastOpen.claimCalls = 0
        /\ (~lastOpen.openOk \/ refused) => lastOpen.chanCalls = 0

C9_Witness ==
    /\ lastOpen.called
    /\ lastOpen.via = "open"
    /\ lastOpen.tag = "GetIoChannel"
    /\ ~lastOpen.claim
    /\ ~lastOpen.claimOk
    /\ lastOpen.claimCalls = 0
    /\ lastOpen.chanCalls = 1

\* C10: if the awaiting task was abandoned before the driver invokes the
\* callback, the callback reclaims the boxed context, releases the driver's
\* operation record, discards the result and returns normally.
C10_CallbackToleratesAbandon ==
    \A o \in Accepted :
        (ops[o].abandoned /\ driver[o].calls = 1) =>
            /\ box[o] = "reclaimed_cb"
            /\ driver[o].freed = 1
            /\ bridge[o].slot = "empty"
            /\ ~crashed

\* C11: rpc_call checks the worker before the future is polled.  On a worker
\* other than the first the assertion fails and the future makes no
\* progress: the device operation it would have submitted is never
\* submitted.  On the first worker the future runs there, and rpc_call
\* returns the future's own outcome: Ok(r) as a Response wrapping A::from(r),
\* Err(e) as the Status converted from e.
C11_RpcOnManagementWorker ==
    /\ rpc.state = "asserted" =>
           /\ rpc.core # FirstCore
           /\ crashed
           /\ nOps = rpc.op - 1
    /\ rpc.state \in { "blocked", "returned" } =>
           /\ rpc.core = FirstCore
           /\ nOps >= rpc.op => ops[rpc.op].core = FirstCore
    /\ rpc.state = "returned" =>
           LET r == ops[rpc.op].ret IN
           /\ r.tag = "Ok" =>
                  /\ rpc.result.tag = "Response"
                  /\ rpc.result.message = [ from |-> r.value ]
           /\ r.tag # "Ok" =>
                  /\ rpc.result.tag = "Status"
                  /\ rpc.result.cause = r.tag

\* an rpc_call returned a Response on the first worker, and a later one was
\* stopped by the assertion on another worker
C11_Witness ==
    /\ rpc.state = "asserted"
    /\ rpc.core # FirstCore
    /\ nOps = 1
    /\ ops[1].pc = "returned"
    /\ ops[1].ret.tag = "Ok"

\* C12: an rpc_call that waits for its future on the management worker
\* always returns: the reactor keeps being polled while it waits, so the
\* completion of the device operation the future awaits is delivered on that
\* worker and the future completes.
C12_RpcCallReturns == (rpc.state = "blocked") ~> (rpc.state = "returned")

\* an rpc_call returned after the completion callback of the operation its
\* future awaited had run on the caller's worker
C12_Witness ==
    /\ rpc.state = "returned"
    /\ ops[rpc.op].status = 0
    /\ ops[rpc.op].core = rpc.core
    /\ driver[rpc.op].calls = 1

\* C13: every call of an I/O method has made exactly one call of the
\* driver's submission function, whether the driver rejected it, the
\* completion reported failure or success, or the call is still waiting.
C13_OneSubmissionPerCall ==
    \A o \in OpId :
        /\ o \in Called => ops[o].submits = 1
        /\ o \notin Called => ops[o].submits = 0

\* one call returned a dispatch error and another a completion failure
C13_Witness ==
    \E o1, o2 \in Called :
        /\ ops[o1].pc = "returned" /\ ops[o1].status # 0
        /\ ops[o2].pc = "returned" /\ ops[o2].status = 0
        /\ driver[o2].calls = 1 /\ ~driver[o2].success

\* C14: a call whose Sender was dropped without a send never returns: it
\* receives no CoreError nor any other result, and once its await has
\* completed the process has panicked.
C14_CanceledAwaitPanics ==
    \A o \in OpId :
        (bridge[o].sender = "dropped" /\ bridge[o].slot = "empty") =>
            /\ ops[o].ret = NoRet
            /\ ops[o].pc \in { "awaiting", "panicked" }
            /\ ops[o].pc = "panicked" => crashed

\* the await of a call whose Sender was dropped has panicked
C14_Witness ==
    \E o \in OpId :
        /\ bridge[o].sender = "dropped"
        /\ bridge[o].slot = "empty"
        /\ ops[o].pc = "panicked"
        /\ crashed

\* C15: every I/O method call was made on the worker on which the channel of
\* its handle was created: nothing is submitted through a channel from
\* another worker.  The I/O methods do not look at the calling worker, so a
\* handle made on one worker and used on another violates it.
C15_IoOnChannelsWorker ==
    \A o \in Called : ops[o].core = hnd[ops[o].h].core

\* C16: locally! spawns the work on the worker that executes the macro.  When
\* the work yields Ok(v) the macro evaluates to v and the enclosing function
\* goes on to its remaining statements; when it yields Err(e) the enclosing
\* function returns the Err converted from e and executes none of them.
C16_LocallyPropagates ==
    /\ mac.state # "idle" => mac.taskCore = mac.core
    /\ mac.state = "done" =>
           IF mac.work.ok
           THEN /\ mac.tag = "Ok"
                /\ mac.value = mac.work.value
                /\ mac.after = RestSteps
           ELSE /\ mac.tag = "Err"
                /\ mac.from = mac.work.chain[1]
                /\ mac.after = 0

\* on a worker other than the first, the work failed with an error that has
\* two sources and the enclosing function returned at the macro
C16_Witness ==
    /\ mac.state = "done"
    /\ mac.core # FirstCore
    /\ ~mac.work.ok
    /\ mac.tag = "Err"
    /\ Len(mac.log) = 5

\* C17: under a fair event loop, every call whose submission succeeded and
\* whose completion callback the driver has invoked eventually returns to
\* its caller, and a call waits only after a successful submission.
C17_AcceptedCallsReturn ==
    /\ [](\A o \in OpId : ops[o].pc = "awaiting" => ops[o].status = 0)
    /\ \A o \in OpId :
           (driver[o].calls = 1 /\ ~ops[o].abandoned)
               ~> (ops[o].pc = "returned")

\* C18: every run of the completion callback has released the driver's
\* operation record exactly once, with either flag, and released it before
\* the send; no record handed to the callback is left unreleased.
C18_RecordFreedBeforeSend ==
    \A io \in OpId :
        /\ driver[io].freed = driver[io].calls
        /\ driver[io].calls >= 1 => driver[io].freedFirst

\* the callback ran with the flag false for a call whose future was gone:
\* the send panicked, and the record had been released
C18_Witness ==
    \E io \in OpId :
        /\ driver[io].calls = 1
        /\ ~driver[io].success
        /\ driver[io].freed = 1
        /\ ops[io].abandoned
        /\ crashed

\* C19: NVMe::create classifies in a fixed order.  An existing name gives
\* BdevExists and no driver call; otherwise a non-zero status of the
\* driver's create call gives InvalidParams and no await; otherwise the
\* await gives CancelBdev when the Sender was dropped unsent, CreateBdev when
\* the callback reported a non-zero errno, and the name the driver stored
\* only when the callback reported errno 0.
C19_NvmeCreateOrder ==
    nvme.state = "done" =>
        IF nvme.name \in Bdevs
        THEN /\ nvme.tag = "BdevExists"
             /\ nvme.driverCalls = 0
             /\ ~nvme.awaited
        ELSE IF nvme.status # 0
        THEN /\ nvme.tag = "InvalidParams"
             /\ nvme.driverCalls = 1
             /\ ~nvme.awaited
             /\ nvme.cbCalls = 0
        ELSE /\ nvme.driverCalls = 1
             /\ nvme.awaited
             /\ IF nvme.cbCalls = 0
                THEN nvme.sender = "dropped" /\ nvme.tag = "CancelBdev"
                ELSE IF nvme.sent # 0
                THEN nvme.tag = "CreateBdev"
                ELSE nvme.tag = "Ok" /\ nvme.ret = << nvme.name, "n1" >>
             /\ nvme.tag # "Ok" => nvme.ret = << >>

\* a create returned the name the driver stored after its callback had
\* reported errno 0
C19_Witness ==
    /\ nvme.state = "done"
    /\ nvme.tag = "Ok"
    /\ nvme.cbCalls = 1
    /\ nvme.sent = 0
    /\ nvme.ret = << nvme.name, "n1" >>

\* C20: sync_config attempts the export exactly when the wrapped future's
\* result is Ok.  It returns that result unchanged, except that an Ok whose
\* export failed becomes a data_loss error; an Err is returned as it is.
C20_SyncConfigResult ==
    sync.called =>
        /\ sync.exports = (IF sync.inner.ok THEN 1 ELSE 0)
        /\ IF sync.inner.ok /\ ~sync.exportOk
           THEN /\ ~sync.out.ok
                /\ sync.out.status = "data_loss"
           ELSE sync.out = sync.inner

\* the wrapped future succeeded, the export failed, and sync_config returned
\* the data_loss error
C20_Witness ==
    /\ sync.called
    /\ sync.inner.ok
    /\ ~sync.exportOk
    /\ sync.exports = 1
    /\ sync.out.status = "data_loss"

\* descriptors that are open, and handles whose channel is allocated
OpenDescs == { d \in DescId : desc[d].state = "open" }
Channels == { h \in HandleId : hnd[h].chan }

\* C21: a call of open or open_with_bdev that returns an error leaves the
\* set of open descriptors and the set of allocated channels as they were
\* before the call, and the descriptor it opened, if any, is closed and
\* referenced by nothing.
C21_FailedOpenHoldsNothing ==
    [][ (lastOpen' # lastOpen /\ lastOpen'.tag # "Ok") =>
            /\ OpenDescs' = OpenDescs
            /\ Channels' = Channels
            /\ lastOpen'.desc # 0 =>
                   /\ desc'[lastOpen'.desc].state = "closed"
                   /\ desc'[lastOpen'.desc].strong = 0
                   /\ \A h \in HandleId : hnd'[h].desc # lastOpen'.desc ]_vars

\* open_with_bdev opened a descriptor and failed to allocate a channel while
\* another handle was open: the descriptor is closed again
C21_Witness ==
    /\ lastOpen.called
    /\ lastOpen.via = "open_with_bdev"
    /\ lastOpen.tag = "GetIoChannel"
    /\ lastOpen.desc # 0
    /\ desc[lastOpen.desc].state = "closed"
    /\ OpenDescs # {}
    /\ Channels # {}

\* C22: whenever the create callback has run, the creation context whose
\* fields the driver was given by address and the Receiver of the create
\* channel were both alive at that moment, also when the awaiting task was
\* abandoned; the driver never stores through the address of a dead context.
C22_ContextOutlivesCallback ==
    nvme.cbCalls >= 1 =>
        /\ nvme.cbContext = "live"
        /\ nvme.cbReceiver = "held"
        /\ ~nvme.staleWrite


TypeOK ==
    /\ nOps \in 0 .. MaxOps
    /\ nDesc \in 0 .. MaxDescs
    /\ nHnd \in 0 .. MaxHandles
    /\ crashed \in BOOLEAN
    /\ cur \in Cores
    /\ rpc.state \in { "idle", "blocked", "returned", "asserted" }
    /\ rpc.core \in Cores /\ rpc.op \in 0 .. MaxOps
    /\ mac.state \in { "idle", "spawned", "done" }
    /\ mac.core \in Cores /\ mac.taskCore \in Cores
    /\ sync.exports \in 0 .. 1
    /\ nvme.state \in { "idle", "awaiting", "abandoned", "done" }
    /\ nvme.sender \in { "none", "boxed", "sent", "failed", "dropped" }
    /\ nvme.context \in { "none", "live", "dropped" }
    /\ nvme.receiver \in { "none", "held", "taken", "dropped" }
    /\ nvme.driverCalls \in 0 .. 1 /\ nvme.cbCalls \in 0 .. 1
    /\ \A a \in Addr : heap[a] \in 0 .. MaxOps
    /\ \A o \in OpId :
          /\ ops[o].pc \in { "idle", "awaiting", "abandoned", "returned",
                             "panicked" }
          /\ box[o] \in { "none", "boxed", "reclaimed_cb", "dropped_unsent" }
          /\ bridge[o].slot \in { "empty", "true", "false" }
          /\ driver[o].state \in { "none", "pending", "done", "lost" }
    /\ \A d \in DescId : desc[d].state \in { "none", "open", "closed" }
    /\ \A h \in HandleId :
          hnd[h].state \in { "none", "open", "dropped" }
====
